---- MODULE Spec2Model ----
(***************************************************************************)
(* Model of plot.py (IMDB ratings calendar heatmap).                       *)
(*                                                                         *)
(* Strings that the program takes apart (hex colours, date strings) are    *)
(* sequences of one-character strings; strings that are only compared or   *)
(* looked up (title types, month names) are TLA+ strings.  Floating-point  *)
(* lengths are kept in hundredths (cell_size + gap = 1.15 -> 115).         *)
(***************************************************************************)
EXTENDS Integers, Sequences, FiniteSets, TLC

\* ------------------------------------------------------------------------
\* Bounds of the model
\* ------------------------------------------------------------------------
MaxRows == 3
MaxColors == 3
MaxGridRatings == 3
MaxCount == 5
YearLo == 2000
YearHi == 2027

\* ------------------------------------------------------------------------
\* Generic helpers
\* ------------------------------------------------------------------------
RECURSIVE SumSeq(_)
SumSeq(s) == IF s = <<>> THEN 0 ELSE Head(s) + SumSeq(Tail(s))

RECURSIVE Pow(_, _)
Pow(b, e) == IF e = 0 THEN 1 ELSE b * Pow(b, e - 1)

SeqsUpTo(S, n) == UNION {[1..k -> S] : k \in 0..n}

RemoveAt(s, i) == [j \in 1..(Len(s) - 1) |-> IF j < i THEN s[j] ELSE s[j + 1]]

Range(s) == {s[i] : i \in DOMAIN s}

\* ------------------------------------------------------------------------
\* datetime.date as used by plot.py: a date is [year, month, day]
\* ------------------------------------------------------------------------
IsLeap(y) == y % 4 = 0 /\ (y % 100 # 0 \/ y % 400 = 0)

DaysInMonth(y, m) ==
    IF m = 2 THEN (IF IsLeap(y) THEN 29 ELSE 28)
    ELSE IF m \in {4, 6, 9, 11} THEN 30 ELSE 31

RECURSIVE DaysBeforeMonth(_, _)
DaysBeforeMonth(y, m) ==
    IF m = 1 THEN 0 ELSE DaysBeforeMonth(y, m - 1) + DaysInMonth(y, m - 1)

DaysBeforeYear(y) ==
    (y - 1) * 365 + ((y - 1) \div 4) - ((y - 1) \div 100) + ((y - 1) \div 400)

MkDate(y, m, d) == [year |-> y, month |-> m, day |-> d]

\* date.toordinal()
ToOrdinal(d) == DaysBeforeYear(d.year) + DaysBeforeMonth(d.year, d.month) + d.day

\* date.weekday(): Monday = 0 ... Sunday = 6
Weekday(d) == (ToOrdinal(d) + 6) % 7

\* (a - b).days
DaysBetween(a, b) == ToOrdinal(a) - ToOrdinal(b)

\* date.fromordinal(n)
FromOrdinal(ordinal) ==
    LET n0 == ordinal - 1
        n400 == n0 \div 146097
        r400 == n0 % 146097
        n100 == r400 \div 36524
        r100 == r400 % 36524
        n4 == r100 \div 1461
        r4 == r100 % 1461
        n1 == r4 \div 365
        n == r4 % 365
        y == n400 * 400 + 1 + n100 * 100 + n4 * 4 + n1
        leapyear == n1 = 3 /\ (n4 # 24 \/ n100 = 3)
        before(m) == DaysBeforeMonth(IF leapyear THEN 4 ELSE 1, m)
        guess == (n + 50) \div 32
        month == IF before(guess) > n THEN guess - 1 ELSE guess
    IN  IF n1 = 4 \/ n100 = 4 THEN MkDate(y - 1, 12, 31)
        ELSE MkDate(y, month, n - before(month) + 1)

\* datetime.MINYEAR, datetime.MAXYEAR
MINYEAR == 1
MAXYEAR == 9999

\* d + timedelta(days=k): the date, or OverflowError ("date value out of
\* range") when it falls outside MINYEAR..MAXYEAR
AddDays(d, k) ==
    LET ordinal == ToOrdinal(d) + k
    IN  IF ordinal < 1 \/ ordinal > ToOrdinal(MkDate(MAXYEAR, 12, 31))
        THEN [raised |-> "OverflowError", date |-> d]
        ELSE [raised |-> "", date |-> FromOrdinal(ordinal)]

\* a < b on dates
DateLess(a, b) == ToOrdinal(a) < ToOrdinal(b)

\* strftime("%b")
MonthAbbr == <<"Jan", "Feb", "Mar", "Apr", "May", "Jun",
               "Jul", "Aug", "Sep", "Oct", "Nov", "Dec">>

\* ------------------------------------------------------------------------
\* Module constants
\* ------------------------------------------------------------------------
Indigo == <<"#", "4", "f", "4", "6", "e", "5">>
Green  == <<"#", "1", "6", "a", "3", "4", "a">>
Orange == <<"#", "e", "a", "5", "8", "0", "c">>
Teal   == <<"#", "0", "d", "9", "4", "8", "8">>

DEFAULT_COLOR == <<"#", "6", "4", "7", "4", "8", "b">>

BackgroundColor == <<"#", "e", "b", "e", "d", "f", "0">>

\* A str is held as the sequence of its code points: title types are compared
\* for equality (dict lookups) and ordered by sorted(), both by code point.
\* The keys and values of TITLE_TYPE_COLORS and TYPE_MAPPING:
TV_Episode == <<84, 86, 32, 69, 112, 105, 115, 111, 100, 101>>   \* "TV Episode"
Movie == <<77, 111, 118, 105, 101>>   \* "Movie"
TV_Series == <<84, 86, 32, 83, 101, 114, 105, 101, 115>>   \* "TV Series"
Short == <<83, 104, 111, 114, 116>>   \* "Short"
TV_Movie == <<84, 86, 32, 77, 111, 118, 105, 101>>   \* "TV Movie"
TV_Mini_Series == <<84, 86, 32, 77, 105, 110, 105, 32, 83, 101, 114, 105, 101, 115>>   \* "TV Mini Series"
TV_Short == <<84, 86, 32, 83, 104, 111, 114, 116>>   \* "TV Short"
TV_Special == <<84, 86, 32, 83, 112, 101, 99, 105, 97, 108>>   \* "TV Special"
Video == <<86, 105, 100, 101, 111>>   \* "Video"
Video_Game == <<86, 105, 100, 101, 111, 32, 71, 97, 109, 101>>   \* "Video Game"

\* TITLE_TYPE_COLORS.get(t, DEFAULT_COLOR)
TitleTypeColor(t) ==
    CASE t = TV_Episode -> Indigo
      [] t = Movie      -> Green
      [] t = TV_Series  -> Orange
      [] t = Short      -> Teal
      [] OTHER            -> DEFAULT_COLOR

\* TYPE_MAPPING.get(t, t); None is [isNone |-> TRUE]
Keep(t) == [isNone |-> FALSE, value |-> t]
Drop == [isNone |-> TRUE, value |-> <<>>]

TypeMappingDropAsIs(t) == Keep(IF t = TV_Movie THEN Movie ELSE t)

TYPE_MAPPING(t) ==
    CASE t = TV_Movie       -> Keep(Movie)
      [] t = TV_Mini_Series -> Keep(TV_Series)
      [] t = TV_Short       -> Keep(Short)
      [] t = TV_Special     -> Keep(TV_Series)
      [] t = Video          -> Drop
      [] t = Video_Game     -> Drop
      [] OTHER                -> Keep(t)

\* ------------------------------------------------------------------------
\* Colour conversion and blending
\* ------------------------------------------------------------------------
HexDigits == <<"0", "1", "2", "3", "4", "5", "6", "7",
               "8", "9", "a", "b", "c", "d", "e", "f">>

\* int(s, 16) for one digit (either case)
HexVal(ch) ==
    CASE ch = "A" -> 10 [] ch = "B" -> 11 [] ch = "C" -> 12
      [] ch = "D" -> 13 [] ch = "E" -> 14 [] ch = "F" -> 15
      [] OTHER -> (CHOOSE i \in 1..16 : HexDigits[i] = ch) - 1

\* hex_color.lstrip("#")
RECURSIVE LStripHash(_)
LStripHash(s) == IF s # <<>> /\ Head(s) = "#" THEN LStripHash(Tail(s)) ELSE s

\* A float channel value is the exact fraction num / (255 * den).
Chan(num, den) == [num |-> num, den |-> den]

\* hex_to_rgb: int(xx, 16) / 255 per channel
hex_to_rgb(hex_color) ==
    LET h == LStripHash(hex_color)
    IN  << Chan(HexVal(h[1]) * 16 + HexVal(h[2]), 1),
           Chan(HexVal(h[3]) * 16 + HexVal(h[4]), 1),
           Chan(HexVal(h[5]) * 16 + HexVal(h[6]), 1) >>

\* int(x * 255) for a float channel x.  A value that came straight from
\* c / 255 converts back to c.  A mean of n > 1 channels whose exact value is
\* an integer q may have been rounded to just below q by the double
\* divisions and the sum (depending on the summation order, which follows
\* the iteration order of a set); int() then truncates to q - 1.
TruncChannel(x) ==
    LET q == x.num \div x.den
    IN  IF x.den > 1 /\ x.num % x.den = 0 /\ x.num # 0 /\ x.num # 255 * x.den
        THEN {q - 1, q}
        ELSE {q}

\* "{:02x}".format(n)
Hex2(n) == <<HexDigits[(n \div 16) + 1], HexDigits[(n % 16) + 1]>>

\* rgb_to_hex: the set of strings it can produce for the triple
rgb_to_hex(rgb) ==
    { <<"#">> \o Hex2(r) \o Hex2(g) \o Hex2(b) :
        r \in TruncChannel(rgb[1]), g \in TruncChannel(rgb[2]),
        b \in TruncChannel(rgb[3]) }

Returned(v) == [raised |-> "", value |-> v]
Raised(e) == [raised |-> e, value |-> <<>>]

\* blend_colors: the set of outcomes of one call
BlendColorsEmptyDefault(colors) ==
    IF Len(colors) = 0 THEN {Returned(DEFAULT_COLOR)}
    ELSE IF Len(colors) = 1 THEN {Returned(colors[1])}
    ELSE LET rgb_values == [i \in 1..Len(colors) |-> hex_to_rgb(colors[i])]
             n == Len(rgb_values)
             avg(k) == Chan(SumSeq([i \in 1..n |-> rgb_values[i][k].num]), n)
         IN  {Returned(h) : h \in rgb_to_hex(<<avg(1), avg(2), avg(3)>>)}

blend_colors(colors) ==
    IF Len(colors) = 1 THEN {Returned(colors[1])}
    ELSE LET rgb_values == [i \in 1..Len(colors) |-> hex_to_rgb(colors[i])]
             n == Len(rgb_values)
             avg(k) == Chan(SumSeq([i \in 1..n |-> rgb_values[i][k].num]), n)
         IN  IF n = 0 THEN {Raised("ZeroDivisionError")}
             ELSE {Returned(h) : h \in rgb_to_hex(<<avg(1), avg(2), avg(3)>>)}

\* ------------------------------------------------------------------------
\* load_imdb_ratings: a CSV row is [date_str, title_type]; a missing field
\* reads as the empty string
\* ------------------------------------------------------------------------
Digits == <<"0", "1", "2", "3", "4", "5", "6", "7", "8", "9">>

\* The decimal digits outside ASCII (Unicode category Nd, Unicode 14.0.0), ten
\* per script in the order 0..9.  A character outside ASCII is written as
\* the string "U+" followed by its code point in hexadecimal.
UnicodeDigitRows ==
    <<
       <<"U+0660", "U+0661", "U+0662", "U+0663", "U+0664",
         "U+0665", "U+0666", "U+0667", "U+0668", "U+0669">>,
       <<"U+06F0", "U+06F1", "U+06F2", "U+06F3", "U+06F4",
         "U+06F5", "U+06F6", "U+06F7", "U+06F8", "U+06F9">>,
       <<"U+07C0", "U+07C1", "U+07C2", "U+07C3", "U+07C4",
         "U+07C5", "U+07C6", "U+07C7", "U+07C8", "U+07C9">>,
       <<"U+0966", "U+0967", "U+0968", "U+0969", "U+096A",
         "U+096B", "U+096C", "U+096D", "U+096E", "U+096F">>,
       <<"U+09E6", "U+09E7", "U+09E8", "U+09E9", "U+09EA",
         "U+09EB", "U+09EC", "U+09ED", "U+09EE", "U+09EF">>,
       <<"U+0A66", "U+0A67", "U+0A68", "U+0A69", "U+0A6A",
         "U+0A6B", "U+0A6C", "U+0A6D", "U+0A6E", "U+0A6F">>,
       <<"U+0AE6", "U+0AE7", "U+0AE8", "U+0AE9", "U+0AEA",
         "U+0AEB", "U+0AEC", "U+0AED", "U+0AEE", "U+0AEF">>,
       <<"U+0B66", "U+0B67", "U+0B68", "U+0B69", "U+0B6A",
         "U+0B6B", "U+0B6C", "U+0B6D", "U+0B6E", "U+0B6F">>,
       <<"U+0BE6", "U+0BE7", "U+0BE8", "U+0BE9", "U+0BEA",
         "U+0BEB", "U+0BEC", "U+0BED", "U+0BEE", "U+0BEF">>,
       <<"U+0C66", "U+0C67", "U+0C68", "U+0C69", "U+0C6A",
         "U+0C6B", "U+0C6C", "U+0C6D", "U+0C6E", "U+0C6F">>,
       <<"U+0CE6", "U+0CE7", "U+0CE8", "U+0CE9", "U+0CEA",
         "U+0CEB", "U+0CEC", "U+0CED", "U+0CEE", "U+0CEF">>,
       <<"U+0D66", "U+0D67", "U+0D68", "U+0D69", "U+0D6A",
         "U+0D6B", "U+0D6C", "U+0D6D", "U+0D6E", "U+0D6F">>,
       <<"U+0DE6", "U+0DE7", "U+0DE8", "U+0DE9", "U+0DEA",
         "U+0DEB", "U+0DEC", "U+0DED", "U+0DEE", "U+0DEF">>,
       <<"U+0E50", "U+0E51", "U+0E52", "U+0E53", "U+0E54",
         "U+0E55", "U+0E56", "U+0E57", "U+0E58", "U+0E59">>,
       <<"U+0ED0", "U+0ED1", "U+0ED2", "U+0ED3", "U+0ED4",
         "U+0ED5", "U+0ED6", "U+0ED7", "U+0ED8", "U+0ED9">>,
       <<"U+0F20", "U+0F21", "U+0F22", "U+0F23", "U+0F24",
         "U+0F25", "U+0F26", "U+0F27", "U+0F28", "U+0F29">>,
       <<"U+1040", "U+1041", "U+1042", "U+1043", "U+1044",
         "U+1045", "U+1046", "U+1047", "U+1048", "U+1049">>,
       <<"U+1090", "U+1091", "U+1092", "U+1093", "U+1094",
         "U+1095", "U+1096", "U+1097", "U+1098", "U+1099">>,
       <<"U+17E0", "U+17E1", "U+17E2", "U+17E3", "U+17E4",
         "U+17E5", "U+17E6", "U+17E7", "U+17E8", "U+17E9">>,
       <<"U+1810", "U+1811", "U+1812", "U+1813", "U+1814",
         "U+1815", "U+1816", "U+1817", "U+1818", "U+1819">>,
       <<"U+1946", "U+1947", "U+1948", "U+1949", "U+194A",
         "U+194B", "U+194C", "U+194D", "U+194E", "U+194F">>,
       <<"U+19D0", "U+19D1", "U+19D2", "U+19D3", "U+19D4",
         "U+19D5", "U+19D6", "U+19D7", "U+19D8", "U+19D9">>,
       <<"U+1A80", "U+1A81", "U+1A82", "U+1A83", "U+1A84",
         "U+1A85", "U+1A86", "U+1A87", "U+1A88", "U+1A89">>,
       <<"U+1A90", "U+1A91", "U+1A92", "U+1A93", "U+1A94",
         "U+1A95", "U+1A96", "U+1A97", "U+1A98", "U+1A99">>,
       <<"U+1B50", "U+1B51", "U+1B52", "U+1B53", "U+1B54",
         "U+1B55", "U+1B56", "U+1B57", "U+1B58", "U+1B59">>,
       <<"U+1BB0", "U+1BB1", "U+1BB2", "U+1BB3", "U+1BB4",
         "U+1BB5", "U+1BB6", "U+1BB7", "U+1BB8", "U+1BB9">>,
       <<"U+1C40", "U+1C41", "U+1C42", "U+1C43", "U+1C44",
         "U+1C45", "U+1C46", "U+1C47", "U+1C48", "U+1C49">>,
       <<"U+1C50", "U+1C51", "U+1C52", "U+1C53", "U+1C54",
         "U+1C55", "U+1C56", "U+1C57", "U+1C58", "U+1C59">>,
       <<"U+A620", "U+A621", "U+A622", "U+A623", "U+A624",
         "U+A625", "U+A626", "U+A627", "U+A628", "U+A629">>,
       <<"U+A8D0", "U+A8D1", "U+A8D2", "U+A8D3", "U+A8D4",
         "U+A8D5", "U+A8D6", "U+A8D7", "U+A8D8", "U+A8D9">>,
       <<"U+A900", "U+A901", "U+A902", "U+A903", "U+A904",
         "U+A905", "U+A906", "U+A907", "U+A908", "U+A909">>,
       <<"U+A9D0", "U+A9D1", "U+A9D2", "U+A9D3", "U+A9D4",
         "U+A9D5", "U+A9D6", "U+A9D7", "U+A9D8", "U+A9D9">>,
       <<"U+A9F0", "U+A9F1", "U+A9F2", "U+A9F3", "U+A9F4",
         "U+A9F5", "U+A9F6", "U+A9F7", "U+A9F8", "U+A9F9">>,
       <<"U+AA50", "U+AA51", "U+AA52", "U+AA53", "U+AA54",
         "U+AA55", "U+AA56", "U+AA57", "U+AA58", "U+AA59">>,
       <<"U+ABF0", "U+ABF1", "U+ABF2", "U+ABF3", "U+ABF4",
         "U+ABF5", "U+ABF6", "U+ABF7", "U+ABF8", "U+ABF9">>,
       <<"U+FF10", "U+FF11", "U+FF12", "U+FF13", "U+FF14",
         "U+FF15", "U+FF16", "U+FF17", "U+FF18", "U+FF19">>,
       <<"U+104A0", "U+104A1", "U+104A2", "U+104A3", "U+104A4",
         "U+104A5", "U+104A6", "U+104A7", "U+104A8", "U+104A9">>,
       <<"U+10D30", "U+10D31", "U+10D32", "U+10D33", "U+10D34",
         "U+10D35", "U+10D36", "U+10D37", "U+10D38", "U+10D39">>,
       <<"U+11066", "U+11067", "U+11068", "U+11069", "U+1106A",
         "U+1106B", "U+1106C", "U+1106D", "U+1106E", "U+1106F">>,
       <<"U+110F0", "U+110F1", "U+110F2", "U+110F3", "U+110F4",
         "U+110F5", "U+110F6", "U+110F7", "U+110F8", "U+110F9">>,
       <<"U+11136", "U+11137", "U+11138", "U+11139", "U+1113A",
         "U+1113B", "U+1113C", "U+1113D", "U+1113E", "U+1113F">>,
       <<"U+111D0", "U+111D1", "U+111D2", "U+111D3", "U+111D4",
         "U+111D5", "U+111D6", "U+111D7", "U+111D8", "U+111D9">>,
       <<"U+112F0", "U+112F1", "U+112F2", "U+112F3", "U+112F4",
         "U+112F5", "U+112F6", "U+112F7", "U+112F8", "U+112F9">>,
       <<"U+11450", "U+11451", "U+11452", "U+11453", "U+11454",
         "U+11455", "U+11456", "U+11457", "U+11458", "U+11459">>,
       <<"U+114D0", "U+114D1", "U+114D2", "U+114D3", "U+114D4",
         "U+114D5", "U+114D6", "U+114D7", "U+114D8", "U+114D9">>,
       <<"U+11650", "U+11651", "U+11652", "U+11653", "U+11654",
         "U+11655", "U+11656", "U+11657", "U+11658", "U+11659">>,
       <<"U+116C0", "U+116C1", "U+116C2", "U+116C3", "U+116C4",
         "U+116C5", "U+116C6", "U+116C7", "U+116C8", "U+116C9">>,
       <<"U+11730", "U+11731", "U+11732", "U+11733", "U+11734",
         "U+11735", "U+11736", "U+11737", "U+11738", "U+11739">>,
       <<"U+118E0", "U+118E1", "U+118E2", "U+118E3", "U+118E4",
         "U+118E5", "U+118E6", "U+118E7", "U+118E8", "U+118E9">>,
       <<"U+11950", "U+11951", "U+11952", "U+11953", "U+11954",
         "U+11955", "U+11956", "U+11957", "U+11958", "U+11959">>,
       <<"U+11C50", "U+11C51", "U+11C52", "U+11C53", "U+11C54",
         "U+11C55", "U+11C56", "U+11C57", "U+11C58", "U+11C59">>,
       <<"U+11D50", "U+11D51", "U+11D52", "U+11D53", "U+11D54",
         "U+11D55", "U+11D56", "U+11D57", "U+11D58", "U+11D59">>,
       <<"U+11DA0", "U+11DA1", "U+11DA2", "U+11DA3", "U+11DA4",
         "U+11DA5", "U+11DA6", "U+11DA7", "U+11DA8", "U+11DA9">>,
       <<"U+16A60", "U+16A61", "U+16A62", "U+16A63", "U+16A64",
         "U+16A65", "U+16A66", "U+16A67", "U+16A68", "U+16A69">>,
       <<"U+16AC0", "U+16AC1", "U+16AC2", "U+16AC3", "U+16AC4",
         "U+16AC5", "U+16AC6", "U+16AC7", "U+16AC8", "U+16AC9">>,
       <<"U+16B50", "U+16B51", "U+16B52", "U+16B53", "U+16B54",
         "U+16B55", "U+16B56", "U+16B57", "U+16B58", "U+16B59">>,
       <<"U+1D7CE", "U+1D7CF", "U+1D7D0", "U+1D7D1", "U+1D7D2",
         "U+1D7D3", "U+1D7D4", "U+1D7D5", "U+1D7D6", "U+1D7D7">>,
       <<"U+1D7D8", "U+1D7D9", "U+1D7DA", "U+1D7DB", "U+1D7DC",
         "U+1D7DD", "U+1D7DE", "U+1D7DF", "U+1D7E0", "U+1D7E1">>,
       <<"U+1D7E2", "U+1D7E3", "U+1D7E4", "U+1D7E5", "U+1D7E6",
         "U+1D7E7", "U+1D7E8", "U+1D7E9", "U+1D7EA", "U+1D7EB">>,
       <<"U+1D7EC", "U+1D7ED", "U+1D7EE", "U+1D7EF", "U+1D7F0",
         "U+1D7F1", "U+1D7F2", "U+1D7F3", "U+1D7F4", "U+1D7F5">>,
       <<"U+1D7F6", "U+1D7F7", "U+1D7F8", "U+1D7F9", "U+1D7FA",
         "U+1D7FB", "U+1D7FC", "U+1D7FD", "U+1D7FE", "U+1D7FF">>,
       <<"U+1E140", "U+1E141", "U+1E142", "U+1E143", "U+1E144",
         "U+1E145", "U+1E146", "U+1E147", "U+1E148", "U+1E149">>,
       <<"U+1E2F0", "U+1E2F1", "U+1E2F2", "U+1E2F3", "U+1E2F4",
         "U+1E2F5", "U+1E2F6", "U+1E2F7", "U+1E2F8", "U+1E2F9">>,
       <<"U+1E950", "U+1E951", "U+1E952", "U+1E953", "U+1E954",
         "U+1E955", "U+1E956", "U+1E957", "U+1E958", "U+1E959">>,
       <<"U+1FBF0", "U+1FBF1", "U+1FBF2", "U+1FBF3", "U+1FBF4",
         "U+1FBF5", "U+1FBF6", "U+1FBF7", "U+1FBF8", "U+1FBF9">>
    >>

UnicodeDigits == UNION {Range(UnicodeDigitRows[r]) : r \in DOMAIN UnicodeDigitRows}

\* [1-9] of the regular expressions: ASCII only
IsAscii1to9(ch) == \E i \in 2..10 : Digits[i] = ch

\* \d of the regular expressions: any decimal digit
IsDigit(ch) == (\E i \in 1..10 : Digits[i] = ch) \/ ch \in UnicodeDigits

\* int() of one digit
DigitVal(ch) ==
    IF \E i \in 1..10 : Digits[i] = ch
    THEN (CHOOSE i \in 1..10 : Digits[i] = ch) - 1
    ELSE LET r == CHOOSE q \in DOMAIN UnicodeDigitRows : ch \in Range(UnicodeDigitRows[q])
         IN  (CHOOSE i \in 1..10 : UnicodeDigitRows[r][i] = ch) - 1

At(s, i) == IF i \in 1..Len(s) THEN s[i] ELSE ""

ValueError == [ok |-> FALSE, date |-> MkDate(0, 0, 0)]

\* Length of the %m field starting at position i (0: no match): the
\* alternatives 1[0-2] | 0[1-9] | [1-9], the first one that is followed by "-"
MonthFieldLen(s, i) ==
    LET a == At(s, i)
        b == At(s, i + 1)
        two == \/ (a = "1" /\ b \in {"0", "1", "2"})
               \/ (a = "0" /\ IsAscii1to9(b))
        one == IsAscii1to9(a)
    IN  IF two /\ At(s, i + 2) = "-" THEN 2
        ELSE IF one /\ b = "-" THEN 1
        ELSE 0

\* Length of the %d field starting at position i (0: no match): the
\* alternatives 3[01] | [12]\d | 0[1-9] | [1-9] | " "[1-9], first match
DayFieldLen(s, i) ==
    LET a == At(s, i)
        b == At(s, i + 1)
    IN  IF \/ (a = "3" /\ b \in {"0", "1"})
           \/ (a \in {"1", "2"} /\ IsDigit(b))
           \/ (a = "0" /\ IsAscii1to9(b))
           \/ (a = " " /\ IsAscii1to9(b))
        THEN 2
        ELSE IF IsAscii1to9(a) THEN 1
        ELSE 0

FieldVal(s, i, n) ==
    IF n = 1 THEN DigitVal(s[i])
    ELSE (IF s[i] = " " THEN 0 ELSE DigitVal(s[i]) * 10) + DigitVal(s[i + 1])

\* datetime.strptime(date_str, "%Y-%m-%d").date(), or ValueError
Strptime(s) ==
    LET yearOk == Len(s) >= 5 /\ (\A i \in 1..4 : IsDigit(s[i])) /\ s[5] = "-"
        ml == MonthFieldLen(s, 6)
        dl == DayFieldLen(s, 7 + ml)
        y == DigitVal(s[1]) * 1000 + DigitVal(s[2]) * 100
             + DigitVal(s[3]) * 10 + DigitVal(s[4])
        m == FieldVal(s, 6, ml)
        d == FieldVal(s, 7 + ml, dl)
    IN  IF ~yearOk \/ ml = 0 \/ dl = 0 THEN ValueError
        ELSE IF Len(s) # 6 + ml + dl THEN ValueError   \* unconverted data remains
        ELSE IF y < 1 \/ d > DaysInMonth(y, m) THEN ValueError
        ELSE [ok |-> TRUE, date |-> MkDate(y, m, d)]

\* The body of the reader loop: the ratings list after one more row
LoadRow(ratings, row) ==
    IF row.date_str # <<>> /\ row.title_type # <<>>
    THEN LET mapped_type == TYPE_MAPPING(row.title_type)
             parsed == Strptime(row.date_str)
         IN  IF mapped_type.isNone THEN ratings
             ELSE IF parsed.ok
                  THEN Append(ratings, [date |-> parsed.date,
                                        title_type |-> mapped_type.value])
                  ELSE ratings
    ELSE ratings

RECURSIVE LoadFrom(_, _)
LoadFrom(ratings, rows) ==
    IF rows = <<>> THEN ratings
    ELSE LoadFrom(LoadRow(ratings, Head(rows)), Tail(rows))

load_imdb_ratings(rows) == LoadFrom(<<>>, rows)

\* ------------------------------------------------------------------------
\* aggregate_by_date: the mapping date -> [count, types]
\* ------------------------------------------------------------------------
\* by_date[date] of the defaultdict: the entry, created as {0, set()} if absent
Entry(by_date, date) ==
    IF date \in DOMAIN by_date THEN by_date[date] ELSE [count |-> 0, types |-> {}]

Put(by_date, date, e) ==
    [k \in DOMAIN by_date \cup {date} |-> IF k = date THEN e ELSE by_date[k]]

AggregateStepLastType(by_date, r) ==
    Put(by_date, r.date, [count |-> Entry(by_date, r.date).count + 1,
                          types |-> {r.title_type}])

AggregateStepCountRepeats(by_date, r) ==
    Put(by_date, r.date,
        [count |-> IF r.date \in DOMAIN by_date THEN by_date[r.date].count + 1 ELSE 0,
         types |-> Entry(by_date, r.date).types \cup {r.title_type}])

\* The body of the loop over ratings
AggregateStep(by_date, r) ==
    LET e == Entry(by_date, r.date)
        counted == [e EXCEPT !.count = e.count + 1]
    IN  Put(by_date, r.date, [counted EXCEPT !.types = counted.types \cup {r.title_type}])

RECURSIVE AggregateFrom(_, _)
AggregateFrom(by_date, ratings) ==
    IF ratings = <<>> THEN by_date
    ELSE AggregateFrom(AggregateStep(by_date, Head(ratings)), Tail(ratings))

EmptyDict == [k \in {} |-> [count |-> 0, types |-> {}]]

aggregate_by_date(ratings) == AggregateFrom(EmptyDict, ratings)

\* ------------------------------------------------------------------------
\* get_color_for_date
\* ------------------------------------------------------------------------
RECURSIVE SetToSeq(_)
SetToSeq(S) ==
    IF S = {} THEN <<>>
    ELSE LET x == CHOOSE y \in S : TRUE IN <<x>> \o SetToSeq(S \ {x})

\* The list is built in the iteration order of the set; the outcomes of
\* blend_colors over all orders are the outcomes for any one of them.
get_color_for_date(types) ==
    LET ts == SetToSeq(types)
        colors == [i \in 1..Len(ts) |-> TitleTypeColor(ts[i])]
    IN  blend_colors(colors)

\* ------------------------------------------------------------------------
\* create_calendar_heatmap
\* ------------------------------------------------------------------------
Min(a, b) == IF a <= b THEN a ELSE b
Max(a, b) == IF a >= b THEN a ELSE b

\* floor(10 * (math.log1p(count) / math.log1p(max_count))) for
\* base = 1 + max_count >= 2 and target = (1 + count)^10, searched from
\* p = base^k <= target: the values the double quotient can take.  Between
\* two powers it is the k with base^k < target < base^(k+1).  When
\* target = base^(k+1) the exact quotient is the multiple (k+1)/10 of 0.1
\* (log 3 / log 9 = 0.5) and the quotient of the two rounded logarithms is
\* that multiple or the double just below it, depending on the libm; only
\* for k + 1 = 10, where count = max_count, a double is divided by itself
\* and the quotient is 1.0.
RECURSIVE LogRatioFrom(_, _, _, _)
LogRatioFrom(k, p, base, target) ==
    IF p > target \div base THEN {k}
    ELSE IF p * base = target
         THEN (IF k + 1 = 10 THEN {10} ELSE {k, k + 1})
         ELSE LogRatioFrom(k + 1, p * base, base, target)

\* The tenths of math.log1p(count) / math.log1p(max_count), for max_count >= 1
LogRatioTenths(count, max_count) ==
    LogRatioFrom(0, 1, 1 + max_count, Pow(1 + count, 10))

IntensityNoUpperClamp(count, max_count) ==
    {Max(4, r) : r \in LogRatioTenths(count, max_count)}

\* intensity, in tenths (rounded down), for max_count >= 1:
\* min(ratio, 1.0), then max(0.4, intensity)
Intensity(count, max_count) ==
    {LET intensity == Min(r, 10) IN Max(4, intensity) :
        r \in LogRatioTenths(count, max_count)}

\* What dividing by math.log1p(max_count) raises for max_count < 1
IntensityError(max_count) ==
    IF max_count = 0 THEN "ZeroDivisionError"
    ELSE IF max_count < 0 THEN "ValueError"
    ELSE ""

\* Lengths in hundredths
cell_size == 100
gap == 15
total_weeks == 53

start_date(year) == MkDate(year, 1, 1)
end_date(year) == MkDate(year, 12, 31)

\* (start_weekday + 1) % 7, Sunday = 0
start_weekday_sun(year) == (Weekday(start_date(year)) + 1) % 7

DayOfYearByDayOfMonth(current_date, year) == current_date.day - 1

day_of_year(current_date, year) == DaysBetween(current_date, start_date(year))

\* row and col of one iteration of the cell loop
CellPosition(current_date, year) ==
    LET weekday == Weekday(current_date)
        total_days_from_visual_start ==
            day_of_year(current_date, year) + start_weekday_sun(year)
    IN  [row |-> (weekday + 1) % 7, col |-> total_days_from_visual_start \div 7]

\* facecolor: the background string, or the background blended with a base
\* colour at an intensity (final_rgb, kept as its three inputs)
BackgroundFace == [base |-> BackgroundColor, intensity |-> 0, data |-> FALSE]
DataFace(base_color, intensity) ==
    [base |-> base_color, intensity |-> intensity, data |-> TRUE]

\* The Rectangle added for current_date; colour[d] is the value
\* get_color_for_date returned for a date with data, shade[c] the intensity
\* computed for a count c
Cell(current_date, year, year_data, colour, shade) ==
    LET pos == CellPosition(current_date, year)
    IN  [col |-> pos.col, row |-> pos.row,
         x |-> pos.col * (cell_size + gap),
         y |-> (6 - pos.row) * (cell_size + gap),
         facecolor |->
            IF current_date \in DOMAIN year_data
            THEN DataFace(colour[current_date], shade[year_data[current_date].count])
            ELSE BackgroundFace]

\* while current_date <= end_date: ... current_date += timedelta(days=1)
\* patches[i] is the Rectangle of the i-th iteration; raised is what the
\* increment after the last iteration raises
CellLoop(year, year_data, colour, shade) ==
    LET iterations ==
          IF DateLess(end_date(year), start_date(year)) THEN 0
          ELSE DaysBetween(end_date(year), start_date(year)) + 1
    IN  [patches |->
            [i \in 1..iterations |->
                Cell(AddDays(start_date(year), i - 1).date, year, year_data,
                     colour, shade)],
         raised |-> AddDays(end_date(year), 1).raised]

\* month_positions: the x of the first day of each month
MonthPositions(year) ==
    [name \in Range(MonthAbbr) |->
        LET m == CHOOSE i \in 1..12 : MonthAbbr[i] = name
            first == MkDate(year, m, 1)
        IN  ((day_of_year(first, year) + start_weekday_sun(year)) \div 7)
              * (cell_size + gap)]

\* Day labels: every other row, from index 1
day_labels == <<"Sun", "Mon", "Tue", "Wed", "Thu", "Fri", "Sat">>
DayLabelPositions ==
    [i \in {j \in 0..6 : j % 2 = 1} |->
        [label |-> day_labels[i + 1],
         y |-> (6 - i) * (cell_size + gap) + cell_size \div 2]]

\* a < b on str: the first differing code point decides, a proper prefix is
\* smaller
RECURSIVE StrLess(_, _)
StrLess(a, b) ==
    IF b = <<>> THEN FALSE
    ELSE IF a = <<>> THEN TRUE
    ELSE IF Head(a) = Head(b) THEN StrLess(Tail(a), Tail(b))
    ELSE Head(a) < Head(b)

\* sorted(year_types)
RECURSIVE SortedTypes(_)
SortedTypes(S) ==
    IF S = {} THEN <<>>
    ELSE LET least == CHOOSE t \in S : \A u \in S \ {t} : StrLess(t, u)
         IN  <<least>> \o SortedTypes(S \ {least})

Legend(year_types) ==
    LET ts == SortedTypes(year_types)
    IN  [i \in 1..Len(ts) |-> [label |-> ts[i], facecolor |-> TitleTypeColor(ts[i])]]

NoArtifact == [saved |-> FALSE]

\* The figure saved at the end of the call
Artifact(year, year_data, patches) ==
    [saved |-> TRUE,
     patches |-> patches,
     xlim |-> <<0 - gap, total_weeks * (cell_size + gap)>>,
     ylim |-> <<0 - gap, 7 * (cell_size + gap)>>,
     month_positions |-> MonthPositions(year),
     day_label_positions |-> DayLabelPositions,
     legend |-> Legend(UNION {year_data[d].types : d \in DOMAIN year_data})]

YearData(ratings_by_date, year) ==
    [d \in {k \in DOMAIN ratings_by_date : k.year = year} |-> ratings_by_date[d]]

Failed(e) == {[raised |-> e, artifact |-> NoArtifact]}

\* The body of create_calendar_heatmap after year_data is built
RenderYearData(year_data, year, max_count) ==
    LET outcomes == [d \in DOMAIN year_data |-> get_color_for_date(year_data[d].types)]
        blendFails(d) == \E o \in outcomes[d] : o.raised # ""
        failing == {d \in DOMAIN year_data :
                      blendFails(d) \/ IntensityError(max_count) # ""}
        first == CHOOSE d \in failing : \A e \in failing : ~DateLess(e, d)
        values == UNION {{o.value : o \in outcomes[d]} : d \in DOMAIN year_data}
        counts == {year_data[d].count : d \in DOMAIN year_data}
        shades == UNION {Intensity(c, max_count) : c \in counts}
    IN  IF year < MINYEAR \/ year > MAXYEAR
        THEN Failed("ValueError")                 \* datetime(year, 1, 1)
        ELSE IF failing # {}
        THEN IF blendFails(first)
             THEN UNION {Failed(o.raised) : o \in outcomes[first]}
             ELSE Failed(IntensityError(max_count))
        ELSE UNION {
               LET loop == CellLoop(year, year_data, colour, shade)
               IN  IF loop.raised # "" THEN Failed(loop.raised)
                   ELSE {[raised |-> "",
                          artifact |-> Artifact(year, year_data, loop.patches)]} :
               colour \in {f \in [DOMAIN year_data -> values] :
                             \A d \in DOMAIN year_data : Returned(f[d]) \in outcomes[d]},
               shade \in {g \in [counts -> shades] :
                            \A c \in counts : g[c] \in Intensity(c, max_count)} }

CreateCalendarHeatmapAssertsData(ratings_by_date, year, max_count) ==
    IF DOMAIN YearData(ratings_by_date, year) = {}
    THEN Failed("AssertionError")
    ELSE RenderYearData(YearData(ratings_by_date, year), year, max_count)

\* create_calendar_heatmap: the set of outcomes of one call, each the
\* exception raised (if any) and the figure saved to output_path
create_calendar_heatmap(ratings_by_date, year, max_count) ==
    RenderYearData(YearData(ratings_by_date, year), year, max_count)

\* ------------------------------------------------------------------------
\* State
\* ------------------------------------------------------------------------
VARIABLES
    csv_files,        \* main: the CSV files found, each a sequence of rows
    pc,               \* position in main, or in the call under test
    ratings,          \* main: ratings
    ratings_by_date,  \* main: ratings_by_date; argument of create_calendar_heatmap
    max_count,        \* main: max_count; argument of create_calendar_heatmap
    years,            \* main: years
    outputs,          \* main: the heatmaps generated so far, in order
    markdown,         \* main: the years listed in ratings_overview.md
    exception,        \* the exception that ended the run ("" if none)
    year,             \* argument of create_calendar_heatmap
    heatmap,          \* the figure saved by the create_calendar_heatmap call
    colors,           \* argument of blend_colors
    blended           \* outcome of the blend_colors call

vars == <<csv_files, pc, ratings, ratings_by_date, max_count, years, outputs,
          markdown, exception, year, heatmap, colors, blended>>

mainVars == <<csv_files, ratings, years, outputs, markdown>>
gridVars == <<year, heatmap>>
blendVars == <<colors, blended>>

\* ------------------------------------------------------------------------
\* Inputs of the model
\* ------------------------------------------------------------------------
Str_2023_01_15 == <<"2", "0", "2", "3", "-", "0", "1", "-", "1", "5">>
Str_2024_02_29 == <<"2", "0", "2", "4", "-", "0", "2", "-", "2", "9">>
Str_2023_02_29 == <<"2", "0", "2", "3", "-", "0", "2", "-", "2", "9">>
Str_US_Date    == <<"0", "1", "/", "1", "5", "/", "2", "0", "2", "3">>

\* A title type of neither table, with a letter outside ASCII (U+00C9)
Episode_Acute == <<201, 112, 105, 115, 111, 100, 101>>   \* "Episode", E acute

Row(d, t) == [date_str |-> d, title_type |-> t]

CsvRows ==
    { Row(Str_2023_01_15, Movie),
      Row(Str_2024_02_29, TV_Movie),
      Row(Str_2024_02_29, Episode_Acute),
      Row(Str_2024_02_29, Video_Game),
      Row(Str_2023_02_29, Movie),
      Row(Str_US_Date, TV_Episode),
      Row(<<>>, Movie),
      Row(Str_2023_01_15, <<>>) }

\* Ratings for the create_calendar_heatmap call: two in the year, one before it
GridRatings(y) ==
    { [date |-> MkDate(y, 3, 1), title_type |-> Movie],
      [date |-> MkDate(y, 12, 31), title_type |-> TV_Episode],
      [date |-> MkDate(y - 1, 7, 4), title_type |-> Movie] }

Palette == {Indigo, Green, Orange, Teal, DEFAULT_COLOR}

\* ------------------------------------------------------------------------
\* main
\* ------------------------------------------------------------------------
RECURSIVE SortedDesc(_)
SortedDesc(S) ==
    IF S = {} THEN <<>>
    ELSE LET m == CHOOSE x \in S : \A y \in S : y <= x
         IN  <<m>> \o SortedDesc(S \ {m})

\* sorted(set(d.year for d in ratings_by_date.keys()), reverse=True)
SelectYearsOf(by_date) == SortedDesc({d.year : d \in DOMAIN by_date})

MaxOf(S) == CHOOSE x \in S : \A y \in S : y <= x

MaxCountOfLatestYear(by_date) ==
    IF DOMAIN by_date # {}
    THEN LET y == MaxOf({d.year : d \in DOMAIN by_date})
         IN  MaxOf({by_date[d].count : d \in {k \in DOMAIN by_date : k.year = y}})
    ELSE 1

\* max(d["count"] for d in ratings_by_date.values()) if ratings_by_date else 1
MaxCountOf(by_date) ==
    IF DOMAIN by_date # {} THEN MaxOf({by_date[d].count : d \in DOMAIN by_date})
    ELSE 1

Init ==
    /\ csv_files \in {<<>>} \cup {<<f>> : f \in SeqsUpTo(CsvRows, MaxRows)}
    /\ pc = "start"
    /\ ratings = <<>>
    /\ ratings_by_date = EmptyDict
    /\ max_count = 0
    /\ years = <<>>
    /\ outputs = <<>>
    /\ markdown = <<>>
    /\ exception = ""
    /\ year = 0
    /\ heatmap = NoArtifact
    /\ colors = <<>>
    /\ blended = Returned(<<>>)

\* if not csv_files: print(...); return
NoCsvFile ==
    /\ pc = "start"
    /\ csv_files = <<>>
    /\ pc' = "done"
    /\ UNCHANGED <<csv_files, ratings, ratings_by_date, max_count, years, outputs,
                   markdown, exception, year, heatmap, colors, blended>>

\* ratings = load_imdb_ratings(csv_files[0])
LoadRatings ==
    /\ pc = "start"
    /\ csv_files # <<>>
    /\ ratings' = load_imdb_ratings(csv_files[1])
    /\ pc' = "aggregate"
    /\ UNCHANGED <<csv_files, ratings_by_date, max_count, years, outputs,
                   markdown, exception, year, heatmap, colors, blended>>

\* ratings_by_date = aggregate_by_date(ratings)
Aggregate ==
    /\ pc = "aggregate"
    /\ ratings_by_date' = aggregate_by_date(ratings)
    /\ pc' = "max_count"
    /\ UNCHANGED <<csv_files, ratings, max_count, years, outputs,
                   markdown, exception, year, heatmap, colors, blended>>

ComputeMaxCount ==
    /\ pc = "max_count"
    /\ max_count' = MaxCountOf(ratings_by_date)
    /\ pc' = "years"
    /\ UNCHANGED <<csv_files, ratings, ratings_by_date, years, outputs,
                   markdown, exception, year, heatmap, colors, blended>>

SelectYears ==
    /\ pc = "years"
    /\ years' = SelectYearsOf(ratings_by_date)
    /\ pc' = "print_years"
    /\ UNCHANGED <<csv_files, ratings, ratings_by_date, max_count, outputs,
                   markdown, exception, year, heatmap, colors, blended>>

\* print(f"Years: {min(years)} - {max(years)}"): min() of an empty list
\* raises ValueError; then output_dir.mkdir(exist_ok=True)
PrintYearRange ==
    /\ pc = "print_years"
    /\ IF years = <<>>
       THEN pc' = "error" /\ exception' = "ValueError"
       ELSE pc' = "render" /\ exception' = exception
    /\ UNCHANGED <<csv_files, ratings, ratings_by_date, max_count, years, outputs,
                   markdown, year, heatmap, colors, blended>>

\* One iteration of: for year in years: create_calendar_heatmap(...)
RenderYear ==
    /\ pc = "render"
    /\ Len(outputs) < Len(years)
    /\ LET y == years[Len(outputs) + 1]
       IN  \E o \in create_calendar_heatmap(ratings_by_date, y, max_count) :
              IF o.raised # ""
              THEN /\ pc' = "error"
                   /\ exception' = o.raised
                   /\ outputs' = outputs
              ELSE /\ outputs' = Append(outputs, [year |-> y, max_count |-> max_count,
                                                  artifact |-> o.artifact])
                   /\ UNCHANGED <<pc, exception>>
    /\ UNCHANGED <<csv_files, ratings, ratings_by_date, max_count, years,
                   markdown, year, heatmap, colors, blended>>

\* The loop is over: write ratings_overview.md, print "Done!"
WriteMarkdown ==
    /\ pc = "render"
    /\ Len(outputs) = Len(years)
    /\ markdown' = years
    /\ pc' = "done"
    /\ UNCHANGED <<csv_files, ratings, ratings_by_date, max_count, years, outputs,
                   exception, year, heatmap, colors, blended>>

Next ==
    \/ NoCsvFile
    \/ LoadRatings
    \/ Aggregate
    \/ ComputeMaxCount
    \/ SelectYears
    \/ PrintYearRange
    \/ RenderYear
    \/ WriteMarkdown

Spec == Init /\ [][Next]_vars

\* ------------------------------------------------------------------------
\* One call of create_calendar_heatmap, on any year of the range
\* ------------------------------------------------------------------------
InitGrid ==
    /\ year \in (YearLo..YearHi) \cup {MAXYEAR}
    /\ ratings_by_date \in
          {aggregate_by_date(rs) : rs \in SeqsUpTo(GridRatings(year), MaxGridRatings)}
    /\ max_count \in 1..MaxCount
    /\ pc = "call"
    /\ heatmap = NoArtifact
    /\ exception = ""
    /\ csv_files = <<>>
    /\ ratings = <<>>
    /\ years = <<>>
    /\ outputs = <<>>
    /\ markdown = <<>>
    /\ colors = <<>>
    /\ blended = Returned(<<>>)

CallCreateCalendarHeatmap ==
    /\ pc = "call"
    /\ \E o \in create_calendar_heatmap(ratings_by_date, year, max_count) :
          /\ heatmap' = o.artifact
          /\ exception' = o.raised
    /\ pc' = "returned"
    /\ UNCHANGED <<ratings_by_date, max_count, year>>
    /\ UNCHANGED mainVars
    /\ UNCHANGED blendVars

NextGrid == CallCreateCalendarHeatmap

SpecGrid == InitGrid /\ [][NextGrid]_vars

\* ------------------------------------------------------------------------
\* One call of blend_colors, on any list of palette colours
\* ------------------------------------------------------------------------
InitBlend ==
    /\ colors \in SeqsUpTo(Palette, MaxColors)
    /\ blended = Returned(<<>>)
    /\ pc = "call"
    /\ exception = ""
    /\ csv_files = <<>>
    /\ ratings = <<>>
    /\ ratings_by_date = EmptyDict
    /\ max_count = 0
    /\ years = <<>>
    /\ outputs = <<>>
    /\ markdown = <<>>
    /\ year = 0
    /\ heatmap = NoArtifact

CallBlendColors ==
    /\ pc = "call"
    /\ \E o \in blend_colors(colors) :
          /\ blended' = o
          /\ exception' = o.raised
    /\ pc' = "returned"
    /\ UNCHANGED <<colors, ratings_by_date, max_count>>
    /\ UNCHANGED mainVars
    /\ UNCHANGED gridVars

NextBlend == CallBlendColors

SpecBlend == InitBlend /\ [][NextBlend]_vars

\* ------------------------------------------------------------------------
\* Properties
\* ------------------------------------------------------------------------
Rendered == pc = "returned" /\ heatmap.saved

Aggregated == pc \notin {"start", "aggregate"} /\ csv_files # <<>>

DataCells == {i \in DOMAIN heatmap.patches : heatmap.patches[i].facecolor.data}

\* The count behind the i-th cell of the year (0 for a day without data)
CountOfCell(i) ==
    LET d == AddDays(start_date(year), i - 1).date
    IN  IF d \in DOMAIN ratings_by_date THEN ratings_by_date[d].count ELSE 0

\* C1: every cell of a rendered year lies in the 53 x 7 layout: its column is
\* in 0..52 and its row in 0..6, whatever the year.
C1_CellsInsideLayout ==
    Rendered =>
        \A i \in DOMAIN heatmap.patches :
            /\ heatmap.patches[i].col \in 0..(total_weeks - 1)
            /\ heatmap.patches[i].row \in 0..6

\* C2: within one rendered year no two dates share a (column, row) pair.
C2_CellMappingInjective ==
    Rendered =>
        Cardinality({<<heatmap.patches[i].col, heatmap.patches[i].row>> :
                        i \in DOMAIN heatmap.patches}) = Len(heatmap.patches)

C2_Witness ==
    /\ Rendered
    /\ Len(heatmap.patches) = 366
    /\ start_weekday_sun(year) = 6

\* C3: a run whose input yields zero aggregates never ends in an exception.
C3_NoDataIsNotAnError ==
    (csv_files # <<>> /\ aggregate_by_date(load_imdb_ratings(csv_files[1])) = EmptyDict)
        => (pc # "error" /\ exception = "")

YearHasNoData == YearData(ratings_by_date, year) = EmptyDict

\* C4 (as claimed): rendering a year that has no aggregates fails and saves
\* no figure.
C4_EmptyYearFails ==
    (pc = "returned" /\ YearHasNoData) => (exception # "" /\ ~heatmap.saved)

\* C4 (amended): rendering a year that has no aggregates is not checked.  For
\* a year before MAXYEAR it raises nothing and saves a figure whose cells all
\* have the background colour and whose legend is empty; for MAXYEAR it
\* fails, as with data, with the OverflowError of the last date increment.
C4_EmptyYearRendersBackground ==
    (pc = "returned" /\ YearHasNoData) =>
        IF year < MAXYEAR
        THEN /\ exception = ""
             /\ heatmap.saved
             /\ Len(heatmap.patches) \in {365, 366}
             /\ \A i \in DOMAIN heatmap.patches :
                   heatmap.patches[i].facecolor = BackgroundFace
             /\ heatmap.legend = <<>>
        ELSE exception = "OverflowError" /\ ~heatmap.saved

C4_Witness ==
    /\ pc = "returned"
    /\ YearHasNoData
    /\ DOMAIN ratings_by_date # {}

\* C5 (as claimed): blend_colors of an empty list fails with InvalidInput.
C5_EmptyBlendInvalidInput ==
    (pc = "returned" /\ colors = <<>>) => blended.raised = "InvalidInput"

\* C5 (amended): blend_colors of an empty list returns no colour and fails
\* with ZeroDivisionError.
C5_EmptyBlendZeroDivision ==
    (pc = "returned" /\ colors = <<>>) =>
        /\ blended.raised = "ZeroDivisionError"
        /\ exception = "ZeroDivisionError"
        /\ blended.value = <<>>

C5_Witness == pc = "returned" /\ colors = <<>> /\ blended.raised # ""

IndexPermutations(n) ==
    {f \in [1..n -> 1..n] : \A i, j \in 1..n : f[i] = f[j] => i = j}

\* C6: aggregating any permutation of the ratings gives the same mapping.
C6_AggregateOrderIndependent ==
    Aggregated =>
        \A f \in IndexPermutations(Len(ratings)) :
            aggregate_by_date([i \in 1..Len(ratings) |-> ratings[f[i]]])
                = ratings_by_date

C6_Witness ==
    /\ Aggregated
    /\ \E i, j \in 1..Len(ratings) :
          /\ i < j
          /\ ratings[i].date = ratings[j].date
          /\ ratings[i].title_type # ratings[j].title_type
    /\ \E i, j \in 1..Len(ratings) : ratings[i].date # ratings[j].date

\* The rows the claim calls skipped, by their content
ParsableDateStrs == {Str_2023_01_15, Str_2024_02_29}
DateOfStr(s) ==
    IF s = Str_2023_01_15 THEN MkDate(2023, 1, 15) ELSE MkDate(2024, 2, 29)

SkippedRow(row) ==
    \/ row.date_str = <<>>
    \/ row.title_type = <<>>
    \/ row.date_str \notin ParsableDateStrs
    \/ row.title_type \in {Video, Video_Game}

UnrecognizedKept(row) ==
    /\ ~SkippedRow(row)
    /\ row.title_type = Episode_Acute

\* C7: a row with a missing field, an unparsable date or a dropped category
\* raises nothing and leaves the mapping as it is without the row; a row with
\* an unrecognized category is counted under that category.
C7_SkippedRowsChangeNothing ==
    Aggregated =>
        LET rows == csv_files[1]
        IN  \A i \in DOMAIN rows :
               /\ SkippedRow(rows[i]) =>
                     /\ aggregate_by_date(load_imdb_ratings(RemoveAt(rows, i)))
                           = ratings_by_date
                     /\ Len(load_imdb_ratings(RemoveAt(rows, i))) = Len(ratings)
               /\ UnrecognizedKept(rows[i]) =>
                     /\ DateOfStr(rows[i].date_str) \in DOMAIN ratings_by_date
                     /\ rows[i].title_type
                           \in ratings_by_date[DateOfStr(rows[i].date_str)].types

C7_Witness ==
    /\ Aggregated
    /\ pc = "done"
    /\ \E i \in DOMAIN csv_files[1] : csv_files[1][i].title_type = Video_Game
    /\ \E i \in DOMAIN csv_files[1] : csv_files[1][i].date_str = Str_2023_02_29
    /\ \E i \in DOMAIN csv_files[1] : UnrecognizedKept(csv_files[1][i])

Contributing(d) == {i \in DOMAIN ratings : ratings[i].date = d}

\* C8: every entry of the mapping has count >= its number of contributing
\* records >= 1 and a non-empty category set, and only dates with a
\* contributing record have an entry.
C8_AggregateEntriesWellFormed ==
    Aggregated =>
        /\ \A d \in DOMAIN ratings_by_date :
              /\ ratings_by_date[d].count >= Cardinality(Contributing(d))
              /\ Cardinality(Contributing(d)) >= 1
              /\ ratings_by_date[d].types # {}
        /\ \A i \in DOMAIN ratings : ratings[i].date \in DOMAIN ratings_by_date

C8_Witness ==
    /\ Aggregated
    /\ \E d \in DOMAIN ratings_by_date : ratings_by_date[d].count >= 2
    /\ Cardinality(DOMAIN ratings_by_date) >= 2

\* C9: for the max_count of the call, the intensity is between 0.4 and 1.0
\* (4 and 10 tenths), does not decrease when the count grows, and is 1.0 when
\* the count equals max_count: for the cells drawn and for every count,
\* whichever way the quotient of the logarithms is rounded.
C9_IntensityMonotoneBounded ==
    Rendered =>
        /\ \A i \in DataCells :
              /\ heatmap.patches[i].facecolor.intensity \in 4..10
              /\ CountOfCell(i) = max_count =>
                    heatmap.patches[i].facecolor.intensity = 10
        /\ \A i, j \in DataCells :
              CountOfCell(i) <= CountOfCell(j) =>
                 heatmap.patches[i].facecolor.intensity
                    <= heatmap.patches[j].facecolor.intensity
        /\ \A c1, c2 \in 1..(MaxCount + 1) :
              /\ Intensity(c1, max_count) \subseteq 4..10
              /\ c1 < c2 =>
                    \A i1 \in Intensity(c1, max_count), i2 \in Intensity(c2, max_count) :
                        i1 <= i2
        /\ Intensity(max_count, max_count) = {10}

C9_Witness ==
    /\ Rendered
    /\ max_count >= 2
    /\ \E i, j \in DataCells :
          /\ CountOfCell(i) = max_count
          /\ heatmap.patches[i].facecolor.intensity = 10
          /\ CountOfCell(j) < max_count
          /\ heatmap.patches[j].facecolor.intensity < 10

\* C10: every heatmap of a run was rendered with the same max_count, the
\* largest count over the dates of all years, so no date of a rendered year
\* has a larger count; the years are rendered once each, in descending order
\* of the distinct years present.
C10_GlobalMaxCountDescendingYears ==
    /\ \A k \in DOMAIN outputs :
          /\ outputs[k].max_count = max_count
          /\ \A d \in DOMAIN ratings_by_date :
                ratings_by_date[d].count <= outputs[k].max_count
          /\ \E d \in DOMAIN ratings_by_date :
                ratings_by_date[d].count = outputs[k].max_count
          /\ outputs[k].year \in {d.year : d \in DOMAIN ratings_by_date}
          /\ \A j \in DOMAIN outputs : j < k => outputs[j].year > outputs[k].year
          /\ \A y \in {d.year : d \in DOMAIN ratings_by_date} :
                y > outputs[k].year => \E j \in 1..(k - 1) : outputs[j].year = y
    /\ pc = "done" /\ csv_files # <<>> =>
          {outputs[k].year : k \in DOMAIN outputs}
              = {d.year : d \in DOMAIN ratings_by_date}

C10_Witness ==
    /\ pc = "done"
    /\ Len(outputs) = 2
    /\ \E d \in DOMAIN ratings_by_date :
          /\ d.year = outputs[1].year
          /\ ratings_by_date[d].count < max_count

====
